---- MODULE Spec2Model ----
(***************************************************************************)
(* Model of the bible-reference parser of src/src/lib.rs.                  *)
(*                                                                         *)
(* A text is the sequence of its chars, each char a Unicode scalar value.   *)
(* parse(string) runs BIBLE_REFERENCE_PATTERN over the text and   *)
(* parse_locations runs VERSES_LOCATION_PATTERN over the captured          *)
(* Locations substring.  The two patterns are written as pattern trees and *)
(* run by a priority-ordered (leftmost-first, greedy) matcher, which is    *)
(* the match and capture semantics of the regex crate.                     *)
(***************************************************************************)
EXTENDS Integers, Sequences, FiniteSets, TLC

(***************************************************************************)
(* Characters.  A char is its Unicode scalar value and a text (&str,       *)
(* String) is the sequence of its chars.  Ord gives the char a one-        *)
(* character ASCII literal writes and Chars the text a sequence of them    *)
(* writes.                                                                 *)
(***************************************************************************)
\* The ASCII characters from ' ' (32) to '_' (95) and from 'a' (97) to
\* '~' (126).
Upper ==
    << " ", "!", "\"", "#", "$", "%", "&", "'", "(", ")", "*", "+", ",", "-",
       ".", "/", "0", "1", "2", "3", "4", "5", "6", "7", "8", "9", ":", ";",
       "<", "=", ">", "?", "@", "A", "B", "C", "D", "E", "F", "G", "H", "I",
       "J", "K", "L", "M", "N", "O", "P", "Q", "R", "S", "T", "U", "V", "W",
       "X", "Y", "Z", "[", "\\", "]", "^", "_" >>

Lower ==
    << "a", "b", "c", "d", "e", "f", "g", "h", "i", "j", "k", "l", "m", "n",
       "o", "p", "q", "r", "s", "t", "u", "v", "w", "x", "y", "z", "{", "|",
       "}", "~" >>

AsciiTable ==
    [c \in {Upper[i] : i \in 1..Len(Upper)} |->
        31 + (CHOOSE i \in 1..Len(Upper) : Upper[i] = c)]
    @@ [c \in {Lower[i] : i \in 1..Len(Lower)} |->
        96 + (CHOOSE i \in 1..Len(Lower) : Lower[i] = c)]
    @@ ("\t" :> 9) @@ ("\n" :> 10) @@ ("\r" :> 13)

Ord(c) == AsciiTable[c]

Chars(t) == [i \in 1..Len(t) |-> AsciiTable[t[i]]]

(***************************************************************************)
(* Character classes.  A class is the ascending sequence of its inclusive  *)
(* ranges <<first, last>>, as the regex crate holds it.                    *)
(***************************************************************************)
\* Binary search of char c in the ranges lo..hi of class rs.
RECURSIVE Search(_, _, _, _)
Search(c, rs, lo, hi) ==
    IF lo > hi THEN FALSE
    ELSE LET mid == (lo + hi) \div 2
         IN  IF c < rs[mid][1] THEN Search(c, rs, lo, mid - 1)
             ELSE IF c > rs[mid][2] THEN Search(c, rs, mid + 1, hi)
             ELSE TRUE

InClass(c, rs) == Search(c, rs, 1, Len(rs))

\* The class of one character and of the characters from one to another.
Only(c) == << <<Ord(c), Ord(c)>> >>
FromTo(a, b) == << <<Ord(a), Ord(b)>> >>

\* [0-9]
AsciiDigit == FromTo("0", "9")

\* \d: the decimal digits of Unicode 16.0 (general category Nd), the
\* version of the tables of regex-syntax 0.8.  It holds the ASCII digits
\* and, among others, the Arabic-Indic ones (1632-1641), which
\* str::parse::<u8> rejects.
Digit ==
    << <<48, 57>>, <<1632, 1641>>, <<1776, 1785>>, <<1984, 1993>>,
       <<2406, 2415>>, <<2534, 2543>>, <<2662, 2671>>, <<2790, 2799>>,
       <<2918, 2927>>, <<3046, 3055>>, <<3174, 3183>>, <<3302, 3311>>,
       <<3430, 3439>>, <<3558, 3567>>, <<3664, 3673>>, <<3792, 3801>>,
       <<3872, 3881>>, <<4160, 4169>>, <<4240, 4249>>, <<6112, 6121>>,
       <<6160, 6169>>, <<6470, 6479>>, <<6608, 6617>>, <<6784, 6793>>,
       <<6800, 6809>>, <<6992, 7001>>, <<7088, 7097>>, <<7232, 7241>>,
       <<7248, 7257>>, <<42528, 42537>>, <<43216, 43225>>, <<43264, 43273>>,
       <<43472, 43481>>, <<43504, 43513>>, <<43600, 43609>>, <<44016, 44025>>,
       <<65296, 65305>>, <<66720, 66729>>, <<68912, 68921>>, <<68928, 68937>>,
       <<69734, 69743>>, <<69872, 69881>>, <<69942, 69951>>, <<70096, 70105>>,
       <<70384, 70393>>, <<70736, 70745>>, <<70864, 70873>>, <<71248, 71257>>,
       <<71360, 71369>>, <<71376, 71395>>, <<71472, 71481>>, <<71904, 71913>>,
       <<72016, 72025>>, <<72688, 72697>>, <<72784, 72793>>, <<73040, 73049>>,
       <<73120, 73129>>, <<73552, 73561>>, <<90416, 90425>>, <<92768, 92777>>,
       <<92864, 92873>>, <<93008, 93017>>, <<93552, 93561>>,
       <<118000, 118009>>, <<120782, 120831>>, <<123200, 123209>>,
       <<123632, 123641>>, <<124144, 124153>>, <<124401, 124410>>,
       <<125264, 125273>>, <<130032, 130041>> >>

\* \pL: the letters of Unicode 16.0 (general categories Lu, Ll, Lt, Lm, Lo).
Letter ==
    << <<65, 90>>, <<97, 122>>, <<170, 170>>, <<181, 181>>, <<186, 186>>,
       <<192, 214>>, <<216, 246>>, <<248, 705>>, <<710, 721>>, <<736, 740>>,
       <<748, 748>>, <<750, 750>>, <<880, 884>>, <<886, 887>>, <<890, 893>>,
       <<895, 895>>, <<902, 902>>, <<904, 906>>, <<908, 908>>, <<910, 929>>,
       <<931, 1013>>, <<1015, 1153>>, <<1162, 1327>>, <<1329, 1366>>,
       <<1369, 1369>>, <<1376, 1416>>, <<1488, 1514>>, <<1519, 1522>>,
       <<1568, 1610>>, <<1646, 1647>>, <<1649, 1747>>, <<1749, 1749>>,
       <<1765, 1766>>, <<1774, 1775>>, <<1786, 1788>>, <<1791, 1791>>,
       <<1808, 1808>>, <<1810, 1839>>, <<1869, 1957>>, <<1969, 1969>>,
       <<1994, 2026>>, <<2036, 2037>>, <<2042, 2042>>, <<2048, 2069>>,
       <<2074, 2074>>, <<2084, 2084>>, <<2088, 2088>>, <<2112, 2136>>,
       <<2144, 2154>>, <<2160, 2183>>, <<2185, 2190>>, <<2208, 2249>>,
       <<2308, 2361>>, <<2365, 2365>>, <<2384, 2384>>, <<2392, 2401>>,
       <<2417, 2432>>, <<2437, 2444>>, <<2447, 2448>>, <<2451, 2472>>,
       <<2474, 2480>>, <<2482, 2482>>, <<2486, 2489>>, <<2493, 2493>>,
       <<2510, 2510>>, <<2524, 2525>>, <<2527, 2529>>, <<2544, 2545>>,
       <<2556, 2556>>, <<2565, 2570>>, <<2575, 2576>>, <<2579, 2600>>,
       <<2602, 2608>>, <<2610, 2611>>, <<2613, 2614>>, <<2616, 2617>>,
       <<2649, 2652>>, <<2654, 2654>>, <<2674, 2676>>, <<2693, 2701>>,
       <<2703, 2705>>, <<2707, 2728>>, <<2730, 2736>>, <<2738, 2739>>,
       <<2741, 2745>>, <<2749, 2749>>, <<2768, 2768>>, <<2784, 2785>>,
       <<2809, 2809>>, <<2821, 2828>>, <<2831, 2832>>, <<2835, 2856>>,
       <<2858, 2864>>, <<2866, 2867>>, <<2869, 2873>>, <<2877, 2877>>,
       <<2908, 2909>>, <<2911, 2913>>, <<2929, 2929>>, <<2947, 2947>>,
       <<2949, 2954>>, <<2958, 2960>>, <<2962, 2965>>, <<2969, 2970>>,
       <<2972, 2972>>, <<2974, 2975>>, <<2979, 2980>>, <<2984, 2986>>,
       <<2990, 3001>>, <<3024, 3024>>, <<3077, 3084>>, <<3086, 3088>>,
       <<3090, 3112>>, <<3114, 3129>>, <<3133, 3133>>, <<3160, 3162>>,
       <<3165, 3165>>, <<3168, 3169>>, <<3200, 3200>>, <<3205, 3212>>,
       <<3214, 3216>>, <<3218, 3240>>, <<3242, 3251>>, <<3253, 3257>>,
       <<3261, 3261>>, <<3293, 3294>>, <<3296, 3297>>, <<3313, 3314>>,
       <<3332, 3340>>, <<3342, 3344>>, <<3346, 3386>>, <<3389, 3389>>,
       <<3406, 3406>>, <<3412, 3414>>, <<3423, 3425>>, <<3450, 3455>>,
       <<3461, 3478>>, <<3482, 3505>>, <<3507, 3515>>, <<3517, 3517>>,
       <<3520, 3526>>, <<3585, 3632>>, <<3634, 3635>>, <<3648, 3654>>,
       <<3713, 3714>>, <<3716, 3716>>, <<3718, 3722>>, <<3724, 3747>>,
       <<3749, 3749>>, <<3751, 3760>>, <<3762, 3763>>, <<3773, 3773>>,
       <<3776, 3780>>, <<3782, 3782>>, <<3804, 3807>>, <<3840, 3840>>,
       <<3904, 3911>>, <<3913, 3948>>, <<3976, 3980>>, <<4096, 4138>>,
       <<4159, 4159>>, <<4176, 4181>>, <<4186, 4189>>, <<4193, 4193>>,
       <<4197, 4198>>, <<4206, 4208>>, <<4213, 4225>>, <<4238, 4238>>,
       <<4256, 4293>>, <<4295, 4295>>, <<4301, 4301>>, <<4304, 4346>>,
       <<4348, 4680>>, <<4682, 4685>>, <<4688, 4694>>, <<4696, 4696>>,
       <<4698, 4701>>, <<4704, 4744>>, <<4746, 4749>>, <<4752, 4784>>,
       <<4786, 4789>>, <<4792, 4798>>, <<4800, 4800>>, <<4802, 4805>>,
       <<4808, 4822>>, <<4824, 4880>>, <<4882, 4885>>, <<4888, 4954>>,
       <<4992, 5007>>, <<5024, 5109>>, <<5112, 5117>>, <<5121, 5740>>,
       <<5743, 5759>>, <<5761, 5786>>, <<5792, 5866>>, <<5873, 5880>>,
       <<5888, 5905>>, <<5919, 5937>>, <<5952, 5969>>, <<5984, 5996>>,
       <<5998, 6000>>, <<6016, 6067>>, <<6103, 6103>>, <<6108, 6108>>,
       <<6176, 6264>>, <<6272, 6276>>, <<6279, 6312>>, <<6314, 6314>>,
       <<6320, 6389>>, <<6400, 6430>>, <<6480, 6509>>, <<6512, 6516>>,
       <<6528, 6571>>, <<6576, 6601>>, <<6656, 6678>>, <<6688, 6740>>,
       <<6823, 6823>>, <<6917, 6963>>, <<6981, 6988>>, <<7043, 7072>>,
       <<7086, 7087>>, <<7098, 7141>>, <<7168, 7203>>, <<7245, 7247>>,
       <<7258, 7293>>, <<7296, 7306>>, <<7312, 7354>>, <<7357, 7359>>,
       <<7401, 7404>>, <<7406, 7411>>, <<7413, 7414>>, <<7418, 7418>>,
       <<7424, 7615>>, <<7680, 7957>>, <<7960, 7965>>, <<7968, 8005>>,
       <<8008, 8013>>, <<8016, 8023>>, <<8025, 8025>>, <<8027, 8027>>,
       <<8029, 8029>>, <<8031, 8061>>, <<8064, 8116>>, <<8118, 8124>>,
       <<8126, 8126>>, <<8130, 8132>>, <<8134, 8140>>, <<8144, 8147>>,
       <<8150, 8155>>, <<8160, 8172>>, <<8178, 8180>>, <<8182, 8188>>,
       <<8305, 8305>>, <<8319, 8319>>, <<8336, 8348>>, <<8450, 8450>>,
       <<8455, 8455>>, <<8458, 8467>>, <<8469, 8469>>, <<8473, 8477>>,
       <<8484, 8484>>, <<8486, 8486>>, <<8488, 8488>>, <<8490, 8493>>,
       <<8495, 8505>>, <<8508, 8511>>, <<8517, 8521>>, <<8526, 8526>>,
       <<8579, 8580>>, <<11264, 11492>>, <<11499, 11502>>, <<11506, 11507>>,
       <<11520, 11557>>, <<11559, 11559>>, <<11565, 11565>>, <<11568, 11623>>,
       <<11631, 11631>>, <<11648, 11670>>, <<11680, 11686>>, <<11688, 11694>>,
       <<11696, 11702>>, <<11704, 11710>>, <<11712, 11718>>, <<11720, 11726>>,
       <<11728, 11734>>, <<11736, 11742>>, <<11823, 11823>>, <<12293, 12294>>,
       <<12337, 12341>>, <<12347, 12348>>, <<12353, 12438>>, <<12445, 12447>>,
       <<12449, 12538>>, <<12540, 12543>>, <<12549, 12591>>, <<12593, 12686>>,
       <<12704, 12735>>, <<12784, 12799>>, <<13312, 19903>>, <<19968, 42124>>,
       <<42192, 42237>>, <<42240, 42508>>, <<42512, 42527>>, <<42538, 42539>>,
       <<42560, 42606>>, <<42623, 42653>>, <<42656, 42725>>, <<42775, 42783>>,
       <<42786, 42888>>, <<42891, 42957>>, <<42960, 42961>>, <<42963, 42963>>,
       <<42965, 42972>>, <<42994, 43009>>, <<43011, 43013>>, <<43015, 43018>>,
       <<43020, 43042>>, <<43072, 43123>>, <<43138, 43187>>, <<43250, 43255>>,
       <<43259, 43259>>, <<43261, 43262>>, <<43274, 43301>>, <<43312, 43334>>,
       <<43360, 43388>>, <<43396, 43442>>, <<43471, 43471>>, <<43488, 43492>>,
       <<43494, 43503>>, <<43514, 43518>>, <<43520, 43560>>, <<43584, 43586>>,
       <<43588, 43595>>, <<43616, 43638>>, <<43642, 43642>>, <<43646, 43695>>,
       <<43697, 43697>>, <<43701, 43702>>, <<43705, 43709>>, <<43712, 43712>>,
       <<43714, 43714>>, <<43739, 43741>>, <<43744, 43754>>, <<43762, 43764>>,
       <<43777, 43782>>, <<43785, 43790>>, <<43793, 43798>>, <<43808, 43814>>,
       <<43816, 43822>>, <<43824, 43866>>, <<43868, 43881>>, <<43888, 44002>>,
       <<44032, 55203>>, <<55216, 55238>>, <<55243, 55291>>, <<63744, 64109>>,
       <<64112, 64217>>, <<64256, 64262>>, <<64275, 64279>>, <<64285, 64285>>,
       <<64287, 64296>>, <<64298, 64310>>, <<64312, 64316>>, <<64318, 64318>>,
       <<64320, 64321>>, <<64323, 64324>>, <<64326, 64433>>, <<64467, 64829>>,
       <<64848, 64911>>, <<64914, 64967>>, <<65008, 65019>>, <<65136, 65140>>,
       <<65142, 65276>>, <<65313, 65338>>, <<65345, 65370>>, <<65382, 65470>>,
       <<65474, 65479>>, <<65482, 65487>>, <<65490, 65495>>, <<65498, 65500>>,
       <<65536, 65547>>, <<65549, 65574>>, <<65576, 65594>>, <<65596, 65597>>,
       <<65599, 65613>>, <<65616, 65629>>, <<65664, 65786>>, <<66176, 66204>>,
       <<66208, 66256>>, <<66304, 66335>>, <<66349, 66368>>, <<66370, 66377>>,
       <<66384, 66421>>, <<66432, 66461>>, <<66464, 66499>>, <<66504, 66511>>,
       <<66560, 66717>>, <<66736, 66771>>, <<66776, 66811>>, <<66816, 66855>>,
       <<66864, 66915>>, <<66928, 66938>>, <<66940, 66954>>, <<66956, 66962>>,
       <<66964, 66965>>, <<66967, 66977>>, <<66979, 66993>>, <<66995, 67001>>,
       <<67003, 67004>>, <<67008, 67059>>, <<67072, 67382>>, <<67392, 67413>>,
       <<67424, 67431>>, <<67456, 67461>>, <<67463, 67504>>, <<67506, 67514>>,
       <<67584, 67589>>, <<67592, 67592>>, <<67594, 67637>>, <<67639, 67640>>,
       <<67644, 67644>>, <<67647, 67669>>, <<67680, 67702>>, <<67712, 67742>>,
       <<67808, 67826>>, <<67828, 67829>>, <<67840, 67861>>, <<67872, 67897>>,
       <<67968, 68023>>, <<68030, 68031>>, <<68096, 68096>>, <<68112, 68115>>,
       <<68117, 68119>>, <<68121, 68149>>, <<68192, 68220>>, <<68224, 68252>>,
       <<68288, 68295>>, <<68297, 68324>>, <<68352, 68405>>, <<68416, 68437>>,
       <<68448, 68466>>, <<68480, 68497>>, <<68608, 68680>>, <<68736, 68786>>,
       <<68800, 68850>>, <<68864, 68899>>, <<68938, 68965>>, <<68975, 68997>>,
       <<69248, 69289>>, <<69296, 69297>>, <<69314, 69316>>, <<69376, 69404>>,
       <<69415, 69415>>, <<69424, 69445>>, <<69488, 69505>>, <<69552, 69572>>,
       <<69600, 69622>>, <<69635, 69687>>, <<69745, 69746>>, <<69749, 69749>>,
       <<69763, 69807>>, <<69840, 69864>>, <<69891, 69926>>, <<69956, 69956>>,
       <<69959, 69959>>, <<69968, 70002>>, <<70006, 70006>>, <<70019, 70066>>,
       <<70081, 70084>>, <<70106, 70106>>, <<70108, 70108>>, <<70144, 70161>>,
       <<70163, 70187>>, <<70207, 70208>>, <<70272, 70278>>, <<70280, 70280>>,
       <<70282, 70285>>, <<70287, 70301>>, <<70303, 70312>>, <<70320, 70366>>,
       <<70405, 70412>>, <<70415, 70416>>, <<70419, 70440>>, <<70442, 70448>>,
       <<70450, 70451>>, <<70453, 70457>>, <<70461, 70461>>, <<70480, 70480>>,
       <<70493, 70497>>, <<70528, 70537>>, <<70539, 70539>>, <<70542, 70542>>,
       <<70544, 70581>>, <<70583, 70583>>, <<70609, 70609>>, <<70611, 70611>>,
       <<70656, 70708>>, <<70727, 70730>>, <<70751, 70753>>, <<70784, 70831>>,
       <<70852, 70853>>, <<70855, 70855>>, <<71040, 71086>>, <<71128, 71131>>,
       <<71168, 71215>>, <<71236, 71236>>, <<71296, 71338>>, <<71352, 71352>>,
       <<71424, 71450>>, <<71488, 71494>>, <<71680, 71723>>, <<71840, 71903>>,
       <<71935, 71942>>, <<71945, 71945>>, <<71948, 71955>>, <<71957, 71958>>,
       <<71960, 71983>>, <<71999, 71999>>, <<72001, 72001>>, <<72096, 72103>>,
       <<72106, 72144>>, <<72161, 72161>>, <<72163, 72163>>, <<72192, 72192>>,
       <<72203, 72242>>, <<72250, 72250>>, <<72272, 72272>>, <<72284, 72329>>,
       <<72349, 72349>>, <<72368, 72440>>, <<72640, 72672>>, <<72704, 72712>>,
       <<72714, 72750>>, <<72768, 72768>>, <<72818, 72847>>, <<72960, 72966>>,
       <<72968, 72969>>, <<72971, 73008>>, <<73030, 73030>>, <<73056, 73061>>,
       <<73063, 73064>>, <<73066, 73097>>, <<73112, 73112>>, <<73440, 73458>>,
       <<73474, 73474>>, <<73476, 73488>>, <<73490, 73523>>, <<73648, 73648>>,
       <<73728, 74649>>, <<74880, 75075>>, <<77712, 77808>>, <<77824, 78895>>,
       <<78913, 78918>>, <<78944, 82938>>, <<82944, 83526>>, <<90368, 90397>>,
       <<92160, 92728>>, <<92736, 92766>>, <<92784, 92862>>, <<92880, 92909>>,
       <<92928, 92975>>, <<92992, 92995>>, <<93027, 93047>>, <<93053, 93071>>,
       <<93504, 93548>>, <<93760, 93823>>, <<93952, 94026>>, <<94032, 94032>>,
       <<94099, 94111>>, <<94176, 94177>>, <<94179, 94179>>,
       <<94208, 100343>>, <<100352, 101589>>, <<101631, 101640>>,
       <<110576, 110579>>, <<110581, 110587>>, <<110589, 110590>>,
       <<110592, 110882>>, <<110898, 110898>>, <<110928, 110930>>,
       <<110933, 110933>>, <<110948, 110951>>, <<110960, 111355>>,
       <<113664, 113770>>, <<113776, 113788>>, <<113792, 113800>>,
       <<113808, 113817>>, <<119808, 119892>>, <<119894, 119964>>,
       <<119966, 119967>>, <<119970, 119970>>, <<119973, 119974>>,
       <<119977, 119980>>, <<119982, 119993>>, <<119995, 119995>>,
       <<119997, 120003>>, <<120005, 120069>>, <<120071, 120074>>,
       <<120077, 120084>>, <<120086, 120092>>, <<120094, 120121>>,
       <<120123, 120126>>, <<120128, 120132>>, <<120134, 120134>>,
       <<120138, 120144>>, <<120146, 120485>>, <<120488, 120512>>,
       <<120514, 120538>>, <<120540, 120570>>, <<120572, 120596>>,
       <<120598, 120628>>, <<120630, 120654>>, <<120656, 120686>>,
       <<120688, 120712>>, <<120714, 120744>>, <<120746, 120770>>,
       <<120772, 120779>>, <<122624, 122654>>, <<122661, 122666>>,
       <<122928, 122989>>, <<123136, 123180>>, <<123191, 123197>>,
       <<123214, 123214>>, <<123536, 123565>>, <<123584, 123627>>,
       <<124112, 124139>>, <<124368, 124397>>, <<124400, 124400>>,
       <<124896, 124902>>, <<124904, 124907>>, <<124909, 124910>>,
       <<124912, 124926>>, <<124928, 125124>>, <<125184, 125251>>,
       <<125259, 125259>>, <<126464, 126467>>, <<126469, 126495>>,
       <<126497, 126498>>, <<126500, 126500>>, <<126503, 126503>>,
       <<126505, 126514>>, <<126516, 126519>>, <<126521, 126521>>,
       <<126523, 126523>>, <<126530, 126530>>, <<126535, 126535>>,
       <<126537, 126537>>, <<126539, 126539>>, <<126541, 126543>>,
       <<126545, 126546>>, <<126548, 126548>>, <<126551, 126551>>,
       <<126553, 126553>>, <<126555, 126555>>, <<126557, 126557>>,
       <<126559, 126559>>, <<126561, 126562>>, <<126564, 126564>>,
       <<126567, 126570>>, <<126572, 126578>>, <<126580, 126583>>,
       <<126585, 126588>>, <<126590, 126590>>, <<126592, 126601>>,
       <<126603, 126619>>, <<126625, 126627>>, <<126629, 126633>>,
       <<126635, 126651>>, <<131072, 173791>>, <<173824, 177977>>,
       <<177984, 178205>>, <<178208, 183969>>, <<183984, 191456>>,
       <<191472, 192093>>, <<194560, 195101>>, <<196608, 201546>>,
       <<201552, 205743>> >>

\* \s: the white space of Unicode (property White_Space): TAB, LF, VT, FF,
\* CR, SPACE, NEL, NBSP and the spaces of the general punctuation block.
Space ==
    << <<9, 13>>, <<32, 32>>, <<133, 133>>, <<160, 160>>, <<5760, 5760>>,
       <<8192, 8202>>, <<8232, 8233>>, <<8239, 8239>>, <<8287, 8287>>,
       <<12288, 12288>> >>

(***************************************************************************)
(* Pattern trees.                                                          *)
(***************************************************************************)
Cls(S) == [t |-> "cls", set |-> S]
Cat(a) == [t |-> "cat", a |-> a]
Alt(x, y) == [t |-> "alt", x |-> x, y |-> y]
Opt(x) == [t |-> "opt", x |-> x]
Star(x) == [t |-> "star", x |-> x]
Plus(x) == [t |-> "plus", x |-> x]
Rep(x, lo, hi) == [t |-> "rep", x |-> x, lo |-> lo, hi |-> hi]
Grp(name, x) == [t |-> "grp", name |-> name, x |-> x]

GroupNames == {"Book", "Locations", "Chapter", "ChapterEnd", "ChapterNext",
               "Verse", "VerseEnd", "VerseNext"}

\* A capture is <<from, to>>, the characters from .. to-1; <<0, 0>> is a
\* group that did not take part in the match.
NoCapture == <<0, 0>>
NoCaptures == [n \in GroupNames |-> NoCapture]

NoMatch == [ok |-> FALSE, end |-> 0, caps |-> NoCaptures]

(***************************************************************************)
(* The regex crate compiles a pattern to a program and runs it as a Pike   *)
(* machine.  Program(re) is the program of pattern re: "char" takes one    *)
(* character of a class, "split" goes on at x and, with lower priority, at *)
(* y, "jmp" goes on at x, "save" records the position as the start or the  *)
(* end of a group, "match" ends the match.  Quantifiers are greedy: the    *)
(* branch that takes more comes first.                                     *)
(***************************************************************************)
Char(S) == [op |-> "char", set |-> S, x |-> 0, y |-> 0, name |-> ""]
Split(x, y) == [op |-> "split", set |-> {}, x |-> x, y |-> y, name |-> ""]
Jmp(x) == [op |-> "jmp", set |-> {}, x |-> x, y |-> 0, name |-> ""]
SaveFrom(name) == [op |-> "from", set |-> {}, x |-> 0, y |-> 0, name |-> name]
SaveTo(name) == [op |-> "to", set |-> {}, x |-> 0, y |-> 0, name |-> name]
Accept == [op |-> "match", set |-> {}, x |-> 0, y |-> 0, name |-> ""]

\* Code(n, at): the instructions of pattern n, the first one at address at.
RECURSIVE Code(_, _), CodeCat(_, _, _)
Code(n, at) ==
    CASE n.t = "cls" -> <<Char(n.set)>>
      [] n.t = "cat" -> CodeCat(n.a, 1, at)
      [] n.t = "alt" ->
           LET cx == Code(n.x, at + 1)
               cy == Code(n.y, at + Len(cx) + 2)
           IN  <<Split(at + 1, at + Len(cx) + 2)>> \o cx
                  \o <<Jmp(at + Len(cx) + 2 + Len(cy))>> \o cy
      [] n.t = "opt" ->
           LET cx == Code(n.x, at + 1)
           IN  <<Split(at + 1, at + Len(cx) + 1)>> \o cx
      [] n.t = "star" ->
           LET cx == Code(n.x, at + 1)
           IN  <<Split(at + 1, at + Len(cx) + 2)>> \o cx \o <<Jmp(at)>>
      [] n.t = "plus" ->
           LET cx == Code(n.x, at)
           IN  cx \o <<Split(at, at + Len(cx) + 1)>>
      [] n.t = "rep" ->
           IF n.lo > 0
           THEN Code(Cat(<<n.x, Rep(n.x, n.lo - 1, n.hi - 1)>>), at)
           ELSE IF n.hi > 0
           THEN Code(Opt(Cat(<<n.x, Rep(n.x, 0, n.hi - 1)>>)), at)
           ELSE <<>>
      [] n.t = "grp" ->
           <<SaveFrom(n.name)>> \o Code(n.x, at + 1) \o <<SaveTo(n.name)>>

CodeCat(a, k, at) ==
    IF k > Len(a) THEN <<>>
    ELSE LET c == Code(a[k], at) IN c \o CodeCat(a, k + 1, at + Len(c))

\* Regex::new
Program(re) == Code(re, 1) \o <<Accept>>

\* The threads of one step, in priority order, and the addresses already
\* taken in this step.
NoThreads == [seen |-> {}, ts |-> <<>>]

\* Follow the instructions that take no character from address a on, and
\* add the threads they lead to behind those of l.
RECURSIVE AddThread(_, _, _, _, _)
AddThread(prog, l, a, caps, pos) ==
    IF a \in l.seen THEN l
    ELSE LET l1 == [l EXCEPT !.seen = @ \cup {a}]
             ins == prog[a]
         IN  CASE ins.op = "jmp" -> AddThread(prog, l1, ins.x, caps, pos)
               [] ins.op = "split" ->
                    AddThread(prog, AddThread(prog, l1, ins.x, caps, pos),
                              ins.y, caps, pos)
               [] ins.op = "from" ->
                    AddThread(prog, l1, a + 1,
                              [caps EXCEPT ![ins.name] = <<pos, 0>>], pos)
               [] ins.op = "to" ->
                    AddThread(prog, l1, a + 1,
                              [caps EXCEPT ![ins.name] = <<@[1], pos>>], pos)
               [] OTHER -> [l1 EXCEPT !.ts = Append(@, [a |-> a, caps |-> caps])]

\* One step over the threads ts from the k-th on, at position pos: a thread
\* at "match" is the match so far and cuts the threads behind it off, a
\* thread at "char" goes on if the character is of its class.
RECURSIVE StepThreads(_, _, _, _, _, _, _)
StepThreads(prog, s, pos, ts, k, nl, best) ==
    IF k > Len(ts) THEN [nl |-> nl, best |-> best]
    ELSE LET ins == prog[ts[k].a]
         IN  IF ins.op = "match"
             THEN [nl |-> nl,
                   best |-> [ok |-> TRUE, end |-> pos, caps |-> ts[k].caps]]
             ELSE IF pos <= Len(s) /\ InClass(s[pos], ins.set)
             THEN StepThreads(prog, s, pos, ts, k + 1,
                              AddThread(prog, nl, ts[k].a + 1, ts[k].caps, pos + 1),
                              best)
             ELSE StepThreads(prog, s, pos, ts, k + 1, nl, best)

RECURSIVE RunFrom(_, _, _, _, _)
RunFrom(prog, s, pos, l, best) ==
    IF Len(l.ts) = 0 THEN best
    ELSE LET r == StepThreads(prog, s, pos, l.ts, 1, NoThreads, best)
         IN  RunFrom(prog, s, pos + 1, r.nl, r.best)

\* The match of the program anchored at position i, if any.
MatchAt(prog, s, i) ==
    RunFrom(prog, s, i, AddThread(prog, NoThreads, 1, NoCaptures, i), NoMatch)

\* Regex::captures_at: the leftmost match of the program in s starting at or
\* after position from.
RECURSIVE Find(_, _, _)
Find(prog, s, from) ==
    IF from > Len(s) THEN NoMatch
    ELSE LET here == MatchAt(prog, s, from)
         IN  IF here.ok THEN here ELSE Find(prog, s, from + 1)

\* Regex::captures_iter: the successive non-overlapping matches of the
\* program in s from position from on.  Neither pattern matches the empty
\* string, so the search resumes where the last match ended.
RECURSIVE CapturesIter(_, _, _)
CapturesIter(prog, s, from) ==
    LET m == Find(prog, s, from)
    IN  IF m.ok THEN <<m>> \o CapturesIter(prog, s, m.end) ELSE <<>>

\* Option: None is <<>>, Some(x) is <<x>>.
None == <<>>
Some(x) == <<x>>

\* Captures::name(..).map(|g| g.as_str())
GroupText(s, m, name) ==
    IF m.caps[name] = NoCapture THEN None
    ELSE Some(SubSeq(s, m.caps[name][1], m.caps[name][2] - 1))

(***************************************************************************)
(* The patterns.                                                           *)
(***************************************************************************)
\* A chapter number of at most two digits: [0-9]?[0-9].
ChapterNumber_TwoDigits == Cat(<<Opt(Cls(AsciiDigit)), Cls(AsciiDigit)>>)

\* 1?[0-9]?[0-9]
ChapterNumber == Cat(<<Opt(Cls(Only("1"))), Opt(Cls(AsciiDigit)), Cls(AsciiDigit)>>)

\* (-(?P<end>\d+)|,\s*(?P<next>\d+))*
EndOrNext(end, next) ==
    Star(Alt(Cat(<<Cls(Only("-")), Grp(end, Plus(Cls(Digit)))>>),
             Cat(<<Cls(Only(",")), Star(Cls(Space)), Grp(next, Plus(Cls(Digit)))>>)))

\* (:\s*(?P<Verse>\d+))?
VerseStart ==
    Opt(Cat(<<Cls(Only(":")), Star(Cls(Space)), Grp("Verse", Plus(Cls(Digit)))>>))

\* A book label that may be without letters: (([1234]|I{1,4})\s*)?\pL*\.?
BookLabel_LettersOptional ==
    Cat(<< Opt(Cat(<<Alt(Cls(FromTo("1", "4")), Rep(Cls(Only("I")), 1, 4)),
                     Star(Cls(Space))>>)),
           Star(Cls(Letter)),
           Opt(Cls(Only("."))) >>)

\* (([1234]|I{1,4})\s*)?\pL+\.?
BookLabel ==
    Cat(<< Opt(Cat(<<Alt(Cls(FromTo("1", "4")), Rep(Cls(Only("I")), 1, 4)),
                     Star(Cls(Space))>>)),
           Plus(Cls(Letter)),
           Opt(Cls(Only("."))) >>)

VERSES_LOCATION_PATTERN ==
    Cat(<< Grp("Chapter", ChapterNumber),
           EndOrNext("ChapterEnd", "ChapterNext"),
           VerseStart,
           EndOrNext("VerseEnd", "VerseNext") >>)

\* A reference pattern without the whitespace after a location.
BIBLE_REFERENCE_PATTERN_NoSpace ==
    Cat(<< Grp("Book", BookLabel),
           Star(Cls(Space)),
           Grp("Locations",
               Plus(Cat(<< Grp("Chapter", ChapterNumber),
                           EndOrNext("ChapterEnd", "ChapterNext"),
                           VerseStart,
                           EndOrNext("VerseEnd", "VerseNext") >>))) >>)

BIBLE_REFERENCE_PATTERN ==
    Cat(<< Grp("Book", BookLabel),
           Star(Cls(Space)),
           Grp("Locations",
               Plus(Cat(<< Grp("Chapter", ChapterNumber),
                           EndOrNext("ChapterEnd", "ChapterNext"),
                           VerseStart,
                           EndOrNext("VerseEnd", "VerseNext"),
                           Opt(Cls(Space)) >>))) >>)

\* lazy_static! { static ref RE: Regex = Regex::new(..).unwrap(); }
LocationRE == Program(VERSES_LOCATION_PATTERN)
ReferenceRE == Program(BIBLE_REFERENCE_PATTERN)

(***************************************************************************)
(* Numbers.                                                                *)
(***************************************************************************)
\* char::to_digit(10) of an ASCII digit.
DigitValue(c) == c - Ord("0")


U8Max == 255

\* str::parse::<u8>().ok() on a captured run of \d characters: None when a
\* character is not an ASCII digit or when the value leaves the u8 range.
RECURSIVE ParseFrom(_, _, _)
ParseFrom(t, i, acc) ==
    IF i > Len(t) THEN Some(acc)
    ELSE IF ~InClass(t[i], AsciiDigit) THEN None
    ELSE LET next == acc * 10 + DigitValue(t[i])
         IN  IF next > U8Max THEN None ELSE ParseFrom(t, i + 1, next)

ParseU8(t) == IF Len(t) = 0 THEN None ELSE ParseFrom(t, 1, 0)

\* match matches.name(g) { Some(group) => group.as_str().parse().ok(),
\*                         None => None }
ParseGroup(s, m, name) ==
    LET g == GroupText(s, m, name)
    IN  IF g = None THEN None ELSE ParseU8(g[1])

\* (a..=b).collect::<Vec<u8>>()
RangeInclusive(a, b) ==
    IF a > b THEN <<>> ELSE [k \in 1..(b - a + 1) |-> a + k - 1]

\* The match over (start, next, end) of lines 112-121.
chapters_range(ch, next, end) ==
    CASE next = None /\ end = None -> <<ch>>
      [] next # None /\ end = None -> <<ch, next[1]>>
      [] next = None /\ end # None -> RangeInclusive(ch, end[1])
      [] next # None /\ end # None -> Append(RangeInclusive(ch, end[1]), next[1])

\* The match over (verse, verse_next, verse_end) of lines 136-146.
verses_range(verse, next, end) ==
    CASE verse = None -> None
      [] verse # None /\ next = None /\ end = None -> Some(<<verse[1]>>)
      [] verse # None /\ next # None /\ end = None -> Some(<<verse[1], next[1]>>)
      [] verse # None /\ next = None /\ end # None ->
            Some(RangeInclusive(verse[1], end[1]))
      [] verse # None /\ next # None /\ end # None ->
            Some(Append(RangeInclusive(verse[1], end[1]), next[1]))

\* A closure that leaves the location out when any captured group does not
\* parse.
LocationOf_SkipsUnparsed(s, m) ==
    IF \E g \in {"Chapter", "ChapterNext", "ChapterEnd", "Verse", "VerseNext", "VerseEnd"} :
          GroupText(s, m, g) # None /\ ParseGroup(s, m, g) = None
    THEN <<>>
    ELSE << [chapters |-> chapters_range(ParseGroup(s, m, "Chapter")[1],
                                         ParseGroup(s, m, "ChapterNext"),
                                         ParseGroup(s, m, "ChapterEnd")),
             verses |-> verses_range(ParseGroup(s, m, "Verse"),
                                     ParseGroup(s, m, "VerseNext"),
                                     ParseGroup(s, m, "VerseEnd"))] >>

\* The closure of parse_locations: one match to zero or one VerseLocation.
LocationOf(s, m) ==
    LET chapter == ParseGroup(s, m, "Chapter")
    IN  IF chapter = None THEN <<>>
        ELSE << [chapters |-> chapters_range(chapter[1],
                                             ParseGroup(s, m, "ChapterNext"),
                                             ParseGroup(s, m, "ChapterEnd")),
                 verses |-> verses_range(ParseGroup(s, m, "Verse"),
                                         ParseGroup(s, m, "VerseNext"),
                                         ParseGroup(s, m, "VerseEnd"))] >>

\* .flat_map(closure).collect() over the location matches.
RECURSIVE FlatMapLocations(_, _)
FlatMapLocations(s, ms) ==
    IF ms = <<>> THEN <<>>
    ELSE LocationOf(s, Head(ms)) \o FlatMapLocations(s, Tail(ms))

parse_locations(s) == FlatMapLocations(s, CapturesIter(LocationRE, s, 1))

\* A closure that keeps the letters of the label only.
ReferenceOf_LettersOnly(s, m) ==
    LET book == GroupText(s, m, "Book")
        locations == GroupText(s, m, "Locations")
        IsLetter(c) == InClass(c, Letter)
    IN  IF book # None /\ locations # None
        THEN << [book |-> SelectSeq(book[1], IsLetter),
                 locations |-> parse_locations(locations[1])] >>
        ELSE <<>>

\* The closure of parse: one match to zero or one BibleReference.
ReferenceOf(s, m) ==
    LET book == GroupText(s, m, "Book")
        locations == GroupText(s, m, "Locations")
    IN  IF book # None /\ locations # None
        THEN << [book |-> book[1], locations |-> parse_locations(locations[1])] >>
        ELSE <<>>

\* .flat_map(closure).collect() over the reference matches.
RECURSIVE FlatMapReferences(_, _)
FlatMapReferences(s, ms) ==
    IF ms = <<>> THEN <<>>
    ELSE ReferenceOf(s, Head(ms)) \o FlatMapReferences(s, Tail(ms))

parse(s) == FlatMapReferences(s, CapturesIter(ReferenceRE, s, 1))

(***************************************************************************)
(* The state machine: a caller holds a text and calls parse on it.         *)
(***************************************************************************)
VARIABLES
    string,   \* the argument of parse
    pc,       \* "ready" before the call, "done" after it
    refs      \* the Vec<BibleReference> parse returned

vars == <<string, pc, refs>>

(***************************************************************************)
(* The texts parse is called on.                                           *)
(***************************************************************************)
\* Every text of up to MaxLen characters of Alphabet.
MaxLen == 4

Alphabet == {Ord(c) : c \in {"G", "1", "5", " ", ":", "-", ","}}

Texts(n) == UNION {[1..k -> Alphabet] : k \in 0..n}

\* Location entries as a writer puts them: a chapter number, then up to
\* MaxSuffixes "-N" / ",N" / ", N" suffixes, then possibly ":" with a verse
\* number and its suffixes.
MaxSuffixes == 2

Starts == {Chars(t) : t \in {<<"3">>, <<"1", "2">>}}

\* ARABIC-INDIC DIGIT THREE: \d takes it, str::parse::<u8> does not.
ArabicThree == 1635

Numbers ==
    {Chars(t) : t \in {<<"1">>, <<"5">>, <<"2", "5", "6">>}} \cup {<<ArabicThree>>}

Marks == {Chars(t) : t \in {<<"-">>, <<",">>, <<",", " ">>}}

Suffix == {m \o n : m \in Marks, n \in Numbers}

RECURSIVE SuffixRuns(_)
SuffixRuns(k) ==
    IF k = 0 THEN {<<>>}
    ELSE LET shorter == SuffixRuns(k - 1)
         IN  shorter \cup {r \o x : r \in shorter, x \in Suffix}

ChapterEntries == {s \o r : s \in Starts, r \in SuffixRuns(MaxSuffixes)}

VerseEntries ==
    {Chars(<<"3", ":">>) \o n \o r : n \in Numbers, r \in SuffixRuns(MaxSuffixes)}
        \cup {Chars(<<"3", ":", " ">>) \o n : n \in Numbers}

MixedEntries ==
    {s \o a \o Chars(<<":">>) \o n \o b :
        s \in Starts, a \in SuffixRuns(1), n \in Numbers, b \in SuffixRuns(1)}

Entries == ChapterEntries \cup VerseEntries \cup MixedEntries

\* One citation with one written entry.
SingleCitations == {Chars(<<"G", " ">>) \o e : e \in Entries}

\* "<Book> <c>:<v>": a book of letters, a chapter of one to three digits and
\* a verse that is a run of digits.
SimpleBooks ==
    {Chars(t) : t \in {<<"G">>, <<"I", "G">>, <<"K", "i">>}} \cup {<<201, 233>>}

SimpleChapters ==
    {Chars(t) : t \in {<<"1">>, <<"0", "7">>, <<"1", "2">>, <<"1", "9", "9">>,
                       <<"2", "0", "0">>, <<"2", "3", "4">>, <<"0", "0", "7">>}}

SimpleVerses ==
    {Chars(t) : t \in {<<"1">>, <<"0", "7">>, <<"2", "5", "5">>,
                       <<"2", "5", "6">>, <<"0", "3", "0", "0">>}}

SimpleCitations ==
    {b \o Chars(<<" ">>) \o c \o Chars(<<":">>) \o v :
        b \in SimpleBooks, c \in SimpleChapters, v \in SimpleVerses}

\* The texts of the tests of lib.rs (lines 197, 206, 216, 222) and of the
\* doc example of the crate (line 9).
TestSimple == Chars(<<"1", "C", "o", "r", " ", "1", ":", "1">>)
TestSingleline ==
    Chars(<<"I", "I", " ", "K", "i", ".", " ", "3", ":", "1", "2", "-", "1", "4",
      ",", " ", "2", "5">>)
TestWrong1 == Chars(<<"1", "2", "3">>)
TestWrong2 == Chars(<<"1", " ", "2", "3", "4", " ", "3", ":", "4">>)
TestDoc ==
    Chars(<<"G", "e", "n", " ", "1", ":", "1", "-", "3", ",", " ", "A", "c", "t",
      " ", "9">>)

\* The Cyrillic book names of test_parse_multiline: "\u{411}\u{44b}\u{442}",
\* "\u{418}\u{441}\u{445}" and "\u{41f}\u{435}\u{442}".
Byt == <<1041, 1099, 1090>>
Ish == <<1048, 1089, 1093>>
Pet == <<1055, 1077, 1090>>

\* The text of test_parse_multiline (lines 229-235).
TestMultiline ==
    Chars(<<"D", "a", "i", "l", "y", " ", "r", "e", "a", "d", "i", "n",
            "g", "s", " ", "a", "r", "e", " ">>)
        \o Byt
        \o Chars(<<" ", "1", ";">>)
        \o Ish
        \o Chars(<<" ", "1", ":", "2", ",", "4", ";", "1", " ">>)
        \o Pet
        \o Chars(<<" ", "5", "-", "8", ",", " ", "1", "0", ".", "A", "l", "s",
            "o", " ", "t", "a", "k", "e", " ", "a", " ", "l", "o", "o", "k", " ",
            "i", "n", ":", "\n", " ", " ", " ", " ", " ", " ", " ", " ", " ",
            " ", " ", " ", " ", "R", "e", "v", " ", "2", ",", "4", ";", "J", "h",
            " ", "1", ":", "2", "-", "4", ",", "7", "G", "e", "n", " ", "1", ":",
            "1", "-", "2", " ", "2", ":", "2", ",", "5">>)

\* Texts with white space other than ' ' and a line feed: "G\t1",
\* "G\r\n1:\t2", "G\u{a0}1,\u{2003}2" and "1\u{3000}K 1".
WhiteSpaceTexts ==
    { <<71, 9, 49>>, <<71, 13, 10, 49, 58, 9, 50>>, <<71, 160, 49, 44, 8195, 50>>,
      <<49, 12288, 75, 32, 49>> }

\* Texts with a digit and a letter that Unicode 15 and 16 added:
\* "G 1,\u{11f50} 2" (KAWI DIGIT ZERO), "\u{1c89} 1" (CYRILLIC CAPITAL LETTER
\* TJE) and "1 \u{1c89}. 3".
LateUnicodeTexts ==
    { <<71, 32, 49, 44, 73552, 32, 50>>, <<7305, 32, 49>>,
      <<49, 32, 7305, 46, 32, 51>> }

TestTexts ==
    {TestSimple, TestSingleline, TestWrong1, TestWrong2, TestDoc, TestMultiline}
        \cup WhiteSpaceTexts \cup LateUnicodeTexts

(***************************************************************************)
(* Texts of two and three citations: each citation is a book label, a gap  *)
(* and entries one space apart, and a separator stands between citations.  *)
(***************************************************************************)
\* "G", "1 K", "II G." and "\u{411}".
Labels ==
    {Chars(t) : t \in {<<"G">>, <<"1", " ", "K">>, <<"I", "I", " ", "G", ".">>}}
        \cup {<<1041>>}

Gaps == {Chars(<<" ">>), <<>>}

EntryOne == Chars(<<"1">>)
EntryRun == Chars(<<"3", "-", "5", ",", "7">>)
EntryVerses == Chars(<<"2", ":", "1", ",", "5">>)

Bodies == {<<EntryOne>>, <<EntryRun>>, <<EntryVerses>>, <<EntryOne, EntryVerses>>}

Separators ==
    {Chars(t) : t \in {<<";">>, <<";", " ">>, <<" ">>, <<",", " ">>, <<>>,
                       <<"\n">>, <<"\t">>}}

Citations == [label : Labels, gap : Gaps, entries : Bodies]

ShortCitations ==
    [label : Labels, gap : {Chars(<<" ">>)},
     entries : {<<EntryOne>>, <<EntryVerses>>}]

RECURSIVE Join(_, _)
Join(parts, sep) ==
    IF Len(parts) = 0 THEN <<>>
    ELSE IF Len(parts) = 1 THEN parts[1]
    ELSE parts[1] \o sep \o Join(Tail(parts), sep)

CitationText(c) == c.label \o c.gap \o Join(c.entries, Chars(<<" ">>))

\* Written texts: the citations and the separators between them.  A label
\* that begins with a numeral does not stand right behind the digits of the
\* citation before it.
Written ==
    {w \in {[cits |-> <<a, b>>, seps |-> <<s>>] :
                a \in Citations, b \in Citations, s \in Separators} :
        w.seps[1] # <<>> \/ InClass(w.cits[2].label[1], Letter)}
    \cup
    {[cits |-> <<a, b, c>>, seps |-> <<s, u>>] :
        a \in ShortCitations, b \in ShortCitations, c \in ShortCitations,
        s \in {Chars(<<";">>), Chars(<<" ">>)},
        u \in {Chars(<<";">>), Chars(<<" ">>)}}

RECURSIVE WrittenFrom(_, _)
WrittenFrom(w, i) ==
    IF i = Len(w.cits) THEN CitationText(w.cits[i])
    ELSE CitationText(w.cits[i]) \o w.seps[i] \o WrittenFrom(w, i + 1)

WrittenText(w) == WrittenFrom(w, 1)

WrittenIndex == {<<WrittenText(w), w>> : w \in Written}

WrittenTexts == {p[1] : p \in WrittenIndex}

Inputs ==
    Texts(MaxLen) \cup SingleCitations \cup SimpleCitations \cup TestTexts
        \cup WrittenTexts

Init ==
    /\ string \in Inputs
    /\ pc = "ready"
    /\ refs = <<>>

\* The call refs = parse(string).
Parse ==
    /\ pc = "ready"
    /\ refs' = parse(string)
    /\ pc' = "done"
    /\ UNCHANGED string

Next == Parse

Spec == Init /\ [][Next]_vars

(***************************************************************************)
(* What the tests of lib.rs assert (lines 195-263) and the doc example     *)
(* (lines 9-14).                                                           *)
(***************************************************************************)
TestsPass ==
    pc = "done" =>
        /\ string = TestSimple =>
              refs = << [book |-> Chars(<<"1", "C", "o", "r">>),
                         locations |-> << [chapters |-> <<1>>,
                                           verses |-> Some(<<1>>)] >>] >>
        /\ string = TestSingleline =>
              refs = << [book |-> Chars(<<"I", "I", " ", "K", "i", ".">>),
                         locations |-> << [chapters |-> <<3>>,
                                           verses |-> Some(<<12, 13, 14, 25>>)] >>] >>
        /\ string \in {TestWrong1, TestWrong2} => refs = <<>>
        /\ string = TestDoc =>
              /\ Len(refs) = 2
              /\ refs[1].book = Chars(<<"G", "e", "n">>)
              /\ refs[1].locations[1].chapters = <<1>>
              /\ refs[1].locations[1].verses = Some(<<1, 2, 3>>)
        /\ string = TestMultiline =>
              /\ Len(refs) = 6
              /\ refs[1].book = Byt
              /\ refs[1].locations[1].chapters = <<1>>
              /\ refs[2].book = Ish
              /\ refs[2].locations[1].chapters = <<1>>
              /\ refs[2].locations[1].verses = Some(<<2, 4>>)
              /\ refs[3].book = Chars(<<"1", " ">>) \o Pet
              /\ refs[3].locations[1].chapters = <<5, 6, 7, 8, 10>>
              /\ refs[3].locations[1].verses = None
              /\ refs[4].book = Chars(<<"R", "e", "v">>)
              /\ refs[4].locations[1].chapters = <<2, 4>>
              /\ refs[4].locations[1].verses = None
              /\ refs[5].book = Chars(<<"J", "h">>)
              /\ refs[5].locations[1].chapters = <<1>>
              /\ refs[5].locations[1].verses = Some(<<2, 3, 4, 7>>)
              /\ refs[6].book = Chars(<<"G", "e", "n">>)
              /\ refs[6].locations[1].chapters = <<1>>
              /\ refs[6].locations[1].verses = Some(<<1, 2>>)
              /\ refs[6].locations[2].chapters = <<2>>
              /\ refs[6].locations[2].verses = Some(<<2, 5>>)

(***************************************************************************)
(* The claims.                                                             *)
(***************************************************************************)
HasLetter(t) == \E i \in 1..Len(t) : InClass(t[i], Letter)

\* C4: a text without a letter yields no reference, and the book of every
\* reference parse returns holds at least one letter.
C4_NoLetterNoReference ==
    pc = "done" =>
        /\ ~HasLetter(string) => refs = <<>>
        /\ \A k \in 1..Len(refs) : HasLetter(refs[k].book)

\* C4 witness: parse has run on the numerals-only text of test_wrong_input_2
\* and returned nothing.
C4_Witness == pc = "done" /\ string = TestWrong2 /\ refs = <<>>

\* C6 (as claimed): in every VerseLocation parse returns, chapters is
\* non-empty and verses, when Some, is non-empty.
C6_NonEmptySequences ==
    pc = "done" =>
        \A k \in 1..Len(refs) : \A j \in 1..Len(refs[k].locations) :
            LET loc == refs[k].locations[j]
            IN  /\ loc.chapters # <<>>
                /\ loc.verses # None => loc.verses[1] # <<>>

\* C7: every BibleReference parse returns has at least one location.
C7_LocationsNonEmpty ==
    pc = "done" => \A k \in 1..Len(refs) : Len(refs[k].locations) >= 1

\* C7 witness: a reference was returned for a citation whose chapter is a
\* three-digit number, the longest the Chapter group takes.
C7_Witness ==
    /\ pc = "done"
    /\ Len(refs) = 1
    /\ Len(refs[1].locations) = 1
    /\ refs[1].locations[1].chapters[1] >= 100

NumberGroups ==
    {"Chapter", "ChapterEnd", "ChapterNext", "Verse", "VerseEnd", "VerseNext"}

\* Every digit group the location match m captured parses as a u8.
AllGroupsParse(s, m) ==
    \A g \in NumberGroups :
        GroupText(s, m, g) # None => ParseU8(GroupText(s, m, g)[1]) # None

\* C9 (as claimed): a location match with a captured digit group that does
\* not parse as a u8 is left out of the output: each reference holds one
\* location per location match whose captured groups all parse.
C9_UnparsedGroupSkipsLocation ==
    pc = "done" =>
        LET ms == CapturesIter(ReferenceRE, string, 1)
        IN  /\ Len(refs) = Len(ms)
            /\ \A k \in 1..Len(ms) :
                 LET text == GroupText(string, ms[k], "Locations")[1]
                     lms == CapturesIter(LocationRE, text, 1)
                 IN  Len(refs[k].locations) =
                        Cardinality({j \in 1..Len(lms) : AllGroupsParse(text, lms[j])})

(***************************************************************************)
(* Written numbers, read independently of the parser.                      *)
(***************************************************************************)
\* The value of a decimal digit of any script: the digits of a script are
\* ten chars in a row from its zero on, and the ranges of Digit hold whole
\* scripts.
DecimalValue(c) ==
    LET r == CHOOSE k \in 1..Len(Digit) : Digit[k][1] <= c /\ c <= Digit[k][2]
    IN  (c - Digit[r][1]) % 10

\* The number a run of decimal digits writes, of any size.
RECURSIVE Decimal(_)
Decimal(t) ==
    IF Len(t) = 0 THEN 0
    ELSE Decimal(SubSeq(t, 1, Len(t) - 1)) * 10
            + DecimalValue(t[Len(t)])

\* The number group g of match m captured, None when it captured nothing.
CapturedNumber(s, m, g) ==
    IF GroupText(s, m, g) = None THEN None ELSE Some(Decimal(GroupText(s, m, g)[1]))

\* The table of spec 4.1 for a start s, an optional next n and an optional
\* end e: the ascending run from s to e (s alone without e), then n.
Expansion(s, n, e) ==
    LET last == IF e = None THEN s ELSE e[1]
        run == IF last < s THEN <<>> ELSE [i \in 1..(last - s + 1) |-> s + i - 1]
    IN  IF n = None THEN run ELSE run \o <<n[1]>>

\* The location loc follows the table for the numbers the location match m
\* captured in text, where the start is not above the end.
FollowsTable(text, m, loc) ==
    LET s == CapturedNumber(text, m, "Chapter")
        n == CapturedNumber(text, m, "ChapterNext")
        e == CapturedNumber(text, m, "ChapterEnd")
        v == CapturedNumber(text, m, "Verse")
        vn == CapturedNumber(text, m, "VerseNext")
        ve == CapturedNumber(text, m, "VerseEnd")
    IN  /\ (e = None \/ s[1] <= e[1]) => loc.chapters = Expansion(s[1], n, e)
        /\ (v # None /\ (ve = None \/ v[1] <= ve[1])) =>
              loc.verses = Some(Expansion(v[1], vn, ve))

\* Every reference has one location per location match of its Locations
\* text, and the location follows the table: of every match when all is
\* TRUE, of every match whose captured groups all parse otherwise.
TableFollowed(all) ==
    LET ms == CapturesIter(ReferenceRE, string, 1)
    IN  \A k \in 1..Len(refs) :
            LET text == GroupText(string, ms[k], "Locations")[1]
                lms == CapturesIter(LocationRE, text, 1)
            IN  /\ Len(refs[k].locations) = Len(lms)
                /\ \A j \in 1..Len(lms) :
                      (all \/ AllGroupsParse(text, lms[j])) =>
                          FollowsTable(text, lms[j], refs[k].locations[j])

\* C1 (as claimed): every location match yields a location whose chapters
\* are [s], [s, n], [s..e] or [s..e, n] for its captured Chapter,
\* ChapterNext and ChapterEnd (s <= e), and whose verses are built the same
\* way from Verse, VerseNext and VerseEnd whenever Verse is captured.
C1_ExpansionTable == pc = "done" => TableFollowed(TRUE)

\* C1 apart from C9: the table is followed by every location whose captured
\* groups all parse as u8.
C1_TableWhenGroupsParse == pc = "done" => TableFollowed(FALSE)

(***************************************************************************)
(* A written entry, read without the patterns: the chapter section runs to *)
(* the first ":", the verse section follows it.                            *)
(***************************************************************************)
\* The run of decimal digits of t that starts at position i.
DigitsFrom(t, i) ==
    LET stop == {j \in i..Len(t) : ~InClass(t[j], Digit)}
        to == IF stop = {} THEN Len(t)
              ELSE (CHOOSE j \in stop : \A x \in stop : j <= x) - 1
    IN  SubSeq(t, i, to)

Positions(t, c) == {i \in 1..Len(t) : t[i] = c}

Max(S) == CHOOSE x \in S : \A y \in S : y <= x
Min(S) == CHOOSE x \in S : \A y \in S : x <= y

\* The number after the last mark c ("-" or ",") of section t, if any.
LastAfter(t, c) ==
    IF Positions(t, c) = {} THEN None
    ELSE LET p == Max(Positions(t, c))
             d == IF t[p + 1] = Ord(" ") THEN p + 2 ELSE p + 1
         IN  Some(Decimal(DigitsFrom(t, d)))

\* What the claim makes of a section: its first number, the last "-N" as
\* the end, the last ",N" as the next.
SectionExpansion(t) ==
    Expansion(Decimal(DigitsFrom(t, 1)), LastAfter(t, Ord(",")), LastAfter(t, Ord("-")))

ChapterSection(e) ==
    IF Positions(e, Ord(":")) = {} THEN e ELSE SubSeq(e, 1, Min(Positions(e, Ord(":"))) - 1)

VerseSection(e) ==
    LET c == Min(Positions(e, Ord(":")))
    IN  SubSeq(e, IF e[c + 1] = Ord(" ") THEN c + 2 ELSE c + 1, Len(e))

EntryLocation(e) ==
    [chapters |-> SectionExpansion(ChapterSection(e)),
     verses |-> IF Positions(e, Ord(":")) = {} THEN None
                ELSE Some(SectionExpansion(VerseSection(e)))]

\* The number of "-N" and ",N" suffixes of a section.
Suffixes(t) == Cardinality(Positions(t, Ord("-"))) + Cardinality(Positions(t, Ord(",")))

Repeats(e) ==
    \/ Suffixes(ChapterSection(e)) >= 2
    \/ Positions(e, Ord(":")) # {} /\ Suffixes(VerseSection(e)) >= 2

\* Every digit of t is an ASCII digit and every run of digits writes a
\* number of the u8 range.
NumbersFit(t) ==
    \A i \in 1..Len(t) :
        /\ InClass(t[i], Digit) => InClass(t[i], AsciiDigit)
        /\ (InClass(t[i], Digit) /\ (i = 1 \/ ~InClass(t[i - 1], Digit)))
              => Decimal(DigitsFrom(t, i)) <= U8Max

IsSingleCitation(t) ==
    Len(t) > 2 /\ SubSeq(t, 1, 2) = Chars(<<"G", " ">>) /\ SubSeq(t, 3, Len(t)) \in Entries

\* C10 (as claimed): in a location whose "-N" / ",N" notation is repeated,
\* the last "-N" is the end and the last ",N" the next, whatever their
\* order, and the earlier ones add nothing.
C10_LastOccurrenceWins ==
    (pc = "done" /\ IsSingleCitation(string) /\ Repeats(SubSeq(string, 3, Len(string))))
        => refs = << [book |-> Chars(<<"G">>),
                      locations |-> <<EntryLocation(SubSeq(string, 3, Len(string)))>>] >>

\* C10 apart from C9: the same where every written number fits a u8.
C10_LastWinsWhenNumbersFit ==
    (pc = "done" /\ IsSingleCitation(string) /\ NumbersFit(string))
        => refs = << [book |-> Chars(<<"G">>),
                      locations |-> <<EntryLocation(SubSeq(string, 3, Len(string)))>>] >>

(***************************************************************************)
(* "<Book> <c>:<v>"                                                        *)
(***************************************************************************)
AllIn(t, S) == \A i \in 1..Len(t) : InClass(t[i], S)

\* t is letters, one space, one to three digits, a colon, digits.
IsBookChapterVerse(t) ==
    /\ Cardinality(Positions(t, Ord(" "))) = 1
    /\ Cardinality(Positions(t, Ord(":"))) = 1
    /\ LET sp == Min(Positions(t, Ord(" ")))
           co == Min(Positions(t, Ord(":")))
       IN  /\ 1 < sp /\ sp + 1 < co /\ co < Len(t)
           /\ co - sp - 1 <= 3
           /\ AllIn(SubSeq(t, 1, sp - 1), Letter)
           /\ AllIn(SubSeq(t, sp + 1, co - 1), AsciiDigit)
           /\ AllIn(SubSeq(t, co + 1, Len(t)), AsciiDigit)

BookOf(t) == SubSeq(t, 1, Min(Positions(t, Ord(" "))) - 1)
ChapterOf(t) == SubSeq(t, Min(Positions(t, Ord(" "))) + 1, Min(Positions(t, Ord(":"))) - 1)
VerseOf(t) == SubSeq(t, Min(Positions(t, Ord(":"))) + 1, Len(t))

\* C2 (as claimed): "<Book> <c>:<v>" yields one reference with the one
\* location chapters = [c], verses = Some([v]).
C2_BookChapterVerse ==
    (pc = "done" /\ IsBookChapterVerse(string)) =>
        refs = << [book |-> BookOf(string),
                   locations |-> << [chapters |-> <<Decimal(ChapterOf(string))>>,
                                     verses |-> Some(<<Decimal(VerseOf(string))>>)] >>] >>

\* C2 (amended): the same for a chapter written with one or two digits, or
\* with three digits the first of which is 1, and a verse number of the
\* numeric domain 0..255: chapters = [c], verses = Some([v]).
C2_BookChapterVerseAmended ==
    (/\ pc = "done"
     /\ IsBookChapterVerse(string)
     /\ (Len(ChapterOf(string)) <= 2 \/ ChapterOf(string)[1] = Ord("1"))
     /\ Decimal(VerseOf(string)) <= U8Max) =>
        refs = << [book |-> BookOf(string),
                   locations |-> << [chapters |-> <<Decimal(ChapterOf(string))>>,
                                     verses |-> Some(<<Decimal(VerseOf(string))>>)] >>] >>

\* C2 witness: a three-digit chapter and a three-digit verse went through.
C2_Witness ==
    /\ pc = "done"
    /\ IsBookChapterVerse(string)
    /\ Len(refs) = 1
    /\ refs[1].locations = << [chapters |-> <<199>>, verses |-> Some(<<255>>)] >>

(***************************************************************************)
(* Several citations in one text.                                          *)
(***************************************************************************)
\* The ways the text parse was called on can be read as written citations.
Readings ==
    IF string \in WrittenTexts
    THEN {p[2] : p \in {q \in WrittenIndex : q[1] = string}}
    ELSE {}

\* The matches of the reference pattern come in text order and do not
\* overlap.
SpansInOrder ==
    LET ms == CapturesIter(ReferenceRE, string, 1)
    IN  \A k \in 1..(Len(ms) - 1) :
            /\ ms[k].caps["Book"][1] < ms[k].end
            /\ ms[k].end <= ms[k + 1].caps["Book"][1]

\* One reference per citation of w, in order, each with the locations of
\* the entries written after its own label and of no other.
KeepsEntries(w) ==
    /\ Len(refs) = Len(w.cits)
    /\ \A i \in 1..Len(w.cits) :
          refs[i].locations =
             [j \in 1..Len(w.cits[i].entries) |-> EntryLocation(w.cits[i].entries[j])]

\* One reference per citation of w, in order, each with the label as
\* written.
KeepsLabels(w) ==
    /\ Len(refs) = Len(w.cits)
    /\ \A i \in 1..Len(w.cits) : refs[i].book = w.cits[i].label

\* Every citation of w after the first follows a ";" (and optional
\* whitespace) or has a label that begins with a letter.
Delimited(w) ==
    \A i \in 2..Len(w.cits) :
        \/ (w.seps[i - 1] # <<>> /\ w.seps[i - 1][1] = Ord(";"))
        \/ InClass(w.cits[i].label[1], Letter)

\* C3 (as claimed): a text of several citations yields one reference per
\* citation, in text order, the spans not overlapping, and each reference
\* holds the locations of the entries after its own label only.
C3_OneReferencePerCitation ==
    (pc = "done" /\ string \in WrittenTexts) =>
        (SpansInOrder /\ \A w \in Readings : KeepsEntries(w))

\* C3 (amended): the same for texts in which every citation after the first
\* follows a ";" or has a label that begins with a letter.
C3_OneReferencePerDelimitedCitation ==
    (pc = "done" /\ string \in WrittenTexts) =>
        (SpansInOrder /\ \A w \in Readings : Delimited(w) => KeepsEntries(w))

\* C3 witness: three citations, the second with a numeral label after ";",
\* came back as three references.
C3_Witness ==
    /\ pc = "done"
    /\ Len(refs) = 3
    /\ \E w \in Readings :
          /\ Delimited(w)
          /\ w.cits[2].label = Chars(<<"1", " ", "K">>)
          /\ w.cits[1].entries = <<EntryVerses>>

\* C5 (as claimed): the book of the reference of every citation is the
\* label as written: the numeral or Roman prefix and the whitespace after
\* it, the letters and the period, with no whitespace around it.
C5_BookIsLabelVerbatim ==
    pc = "done" => \A w \in Readings : KeepsLabels(w)

\* C5 (amended): the same for texts in which every citation after the first
\* follows a ";" or has a label that begins with a letter.
C5_BookIsDelimitedLabelVerbatim ==
    pc = "done" => \A w \in Readings : Delimited(w) => KeepsLabels(w)

\* C5 witness: a Roman-prefixed, period-ended label right behind the digits
\* of the citation before it was returned as written.
C5_Witness ==
    /\ pc = "done"
    /\ Len(refs) = 2
    /\ refs[2].book = Chars(<<"I", "I", " ", "G", ".">>)
    /\ \E w \in Readings : w.seps = << <<>> >>

(***************************************************************************)
(* Rendering a reference back to text.                                     *)
(***************************************************************************)
DigitChar(d) == Ord("0") + d

\* The decimal digits of n.
RECURSIVE Digits(_)
Digits(n) ==
    IF n < 10 THEN <<DigitChar(n)>> ELSE Append(Digits(n \div 10), DigitChar(n % 10))

IsRun(q) == \A i \in 1..(Len(q) - 1) : q[i + 1] = q[i] + 1

\* A list of numbers with the "-" and "," of the notation: "a", "a-b" for
\* an ascending run, and the run of all but the last then ",n" otherwise.
RenderList(q) ==
    CASE Len(q) = 0 -> <<>>
      [] Len(q) = 1 -> Digits(q[1])
      [] Len(q) > 1 /\ IsRun(q) -> Digits(q[1]) \o Chars(<<"-">>) \o Digits(q[Len(q)])
      [] Len(q) = 2 /\ ~IsRun(q) -> Digits(q[1]) \o Chars(<<",">>) \o Digits(q[2])
      [] OTHER -> Digits(q[1]) \o Chars(<<"-">>) \o Digits(q[Len(q) - 1])
                    \o Chars(<<",">>) \o Digits(q[Len(q)])

RenderLocation(loc) ==
    RenderList(loc.chapters)
        \o (IF loc.verses = None THEN <<>> ELSE Chars(<<":">>) \o RenderList(loc.verses[1]))

RenderReference(r) ==
    r.book \o Chars(<<" ">>)
        \o Join([j \in 1..Len(r.locations) |-> RenderLocation(r.locations[j])], Chars(<<" ">>))

\* C8 (as claimed): every reference of parse(text), rendered back to text
\* and parsed again, comes back as one reference with the same book and the
\* same locations.
C8_RoundTrip ==
    pc = "done" =>
        \A k \in 1..Len(refs) : parse(RenderReference(refs[k])) = <<refs[k]>>

\* Every list of r is an ascending run, or an ascending run and one more
\* number, and no chapter stands alone above 199.
Renderable(r) ==
    \A j \in 1..Len(r.locations) :
        LET loc == r.locations[j]
            lists == {loc.chapters} \cup (IF loc.verses = None THEN {} ELSE {loc.verses[1]})
        IN  /\ \A q \in lists :
                  /\ q # <<>>
                  /\ IsRun(q) \/ (Len(q) > 2 /\ IsRun(SubSeq(q, 1, Len(q) - 1)))
                       \/ Len(q) = 2
            /\ loc.chapters[1] <= 199

\* C8 apart from C6: the round trip of the references without an empty
\* list.
C8_RoundTripWhenRenderable ==
    pc = "done" =>
        \A k \in 1..Len(refs) :
            Renderable(refs[k]) => parse(RenderReference(refs[k])) = <<refs[k]>>

====
